---- MODULE Spec2Model ----
(***************************************************************************)
(* Smart Shopping Finder (streamlit_app.py): the search pipeline of        *)
(* ShoppingFinder and the search handler of main(), as a state machine.    *)
(*                                                                         *)
(* Numbers.  Python floats are kept in fixed point:                        *)
(*   coordinates         in ticks of 1e-4 degree   (45.698 -> 456980)      *)
(*   distances           in decametres (dam)       (1 km   -> 100)         *)
(*   distance_km, rating in tenths                 (4.2    -> 42)          *)
(*   match_percentage    in tenths of a percent    (66.7   -> 667)         *)
(*   random draws u in [0,1) and probabilities in thousandths              *)
(* Python dicts are functions whose DOMAIN is the set of keys present, so  *)
(* d['k'] raises KeyError exactly when "k" \notin DOMAIN d.                *)
(***************************************************************************)
EXTENDS Integers, Sequences, FiniteSets, TLC

\* ------------------------------------------------------------------ bounds
\* Longest shopping list the model enters.
MaxItems == 2
\* The random stream repeats with this period (the seed picks the stream).
RngPeriod == 3
\* Search actions per session in SpecSession.
MaxSearches == 2

\* --------------------------------------------------------- program constants
\* R = 6371 km, in decametres.
R == 637100
\* common_stores[:6] are the fallback stores.
FallbackCount == 6
\* "fewer than 3" thresholds of search_stores.
MinPlaces == 3
MinStores == 3
\* Slider range of max_distance (km).
SliderMin == 1
SliderMax == 20

common_stores ==
    << "Esselunga", "Conad", "Coop", "Carrefour", "Lidl", "Eurospin",
       "Pam", "MD", "Tigros", "Iper", "Iperal", "Sigma", "Selex",
       "Despar", "Fresco", "NaturaSi^", "U2", "Bennet" >>

\* Mutant of TextSearchCount: the slice [:3] dropped.
TextSearchAll == Len(common_stores)

\* common_stores[:3] are text-searched.
TextSearchCount == 3

\* Fallback coordinate of geocode_location: (45.698, 9.677), Bergamo.
FALLBACK_COORD == << 456980, 96770 >>

\* Python None.
None == [none |-> TRUE]

\* --------------------------------------------------------------- strings
\* The characters of each string the model uses (TLC strings are atomic).
\* "i^" stands for the letter i with grave accent.
Chars(s) ==
    CASE s = "Esselunga" -> << "E","s","s","e","l","u","n","g","a" >>
      [] s = "Conad"     -> << "C","o","n","a","d" >>
      [] s = "Coop"      -> << "C","o","o","p" >>
      [] s = "Carrefour" -> << "C","a","r","r","e","f","o","u","r" >>
      [] s = "Lidl"      -> << "L","i","d","l" >>
      [] s = "Eurospin"  -> << "E","u","r","o","s","p","i","n" >>
      [] s = "NaturaSi^" -> << "N","a","t","u","r","a","S","i^" >>
      [] s = "Fresco"    -> << "F","r","e","s","c","o" >>
      [] s = "pasta"     -> << "p","a","s","t","a" >>
      [] s = "Latte Bio" -> << "L","a","t","t","e"," ","B","i","o" >>
      [] s = "pane"      -> << "p","a","n","e" >>
      [] s = " pasta "   -> << " ","p","a","s","t","a"," " >>
      [] s = "pane "     -> << "p","a","n","e"," " >>
      [] s = "lidl"      -> << "l","i","d","l" >>
      [] s = "eurospin"  -> << "e","u","r","o","s","p","i","n" >>
      [] s = "md"        -> << "m","d" >>
      [] s = "discount"  -> << "d","i","s","c","o","u","n","t" >>
      [] s = "naturasi^" -> << "n","a","t","u","r","a","s","i^" >>
      [] s = "bio"       -> << "b","i","o" >>
      [] s = "naturale"  -> << "n","a","t","u","r","a","l","e" >>
      [] s = "fresco"    -> << "f","r","e","s","c","o" >>
      [] s = "esselunga" -> << "e","s","s","e","l","u","n","g","a" >>
      [] s = "carrefour" -> << "c","a","r","r","e","f","o","u","r" >>
      [] s = "coop"      -> << "c","o","o","p" >>
      [] s = "iper"      -> << "i","p","e","r" >>
      [] s = "vegano"    -> << "v","e","g","a","n","o" >>
      [] s = "integrale" -> << "i","n","t","e","g","r","a","l","e" >>
      [] s = ""          -> << >>
      [] s = "Via Roma 1" -> << "V","i","a"," ","R","o","m","a"," ","1" >>
      [] s = "   "       -> << " "," "," " >>
      [] s = "Bergamo"   -> << "B","e","r","g","a","m","o" >>
      [] s = "Dalmine"   -> << "D","a","l","m","i","n","e" >>

\* str.lower() on one character.
LowerChar(c) ==
    CASE c = "A" -> "a" [] c = "B" -> "b" [] c = "C" -> "c" [] c = "D" -> "d"
      [] c = "E" -> "e" [] c = "F" -> "f" [] c = "G" -> "g" [] c = "H" -> "h"
      [] c = "I" -> "i" [] c = "J" -> "j" [] c = "K" -> "k" [] c = "L" -> "l"
      [] c = "M" -> "m" [] c = "N" -> "n" [] c = "O" -> "o" [] c = "P" -> "p"
      [] c = "Q" -> "q" [] c = "R" -> "r" [] c = "S" -> "s" [] c = "T" -> "t"
      [] c = "U" -> "u" [] c = "V" -> "v" [] c = "W" -> "w" [] c = "X" -> "x"
      [] c = "Y" -> "y" [] c = "Z" -> "z"
      [] OTHER -> c

\* str.lower(), on the characters.
Lower(cs) == [i \in 1..Len(cs) |-> LowerChar(cs[i])]

\* Python `kw in s` for strings: kw is a contiguous substring of s.
Contains(cs, kw) ==
    \E i \in 1..(Len(cs) - Len(kw) + 1) : SubSeq(cs, i, i + Len(kw) - 1) = kw

\* any(k in s for k in keywords)
AnyIn(cs, keywords) == \E k \in keywords : Contains(cs, Chars(k))

\* str.strip() leaves nothing: every character is white space.
IsBlank(s) == \A i \in 1..Len(Chars(s)) : Chars(s)[i] = " "

\* The string of the characters cs, among the strings a strip can give.
Str(cs) == CHOOSE s \in {"", "pasta", "Latte Bio", "pane"} : Chars(s) = cs

\* str.strip(): the characters from the first to the last that is no space.
strip(s) ==
    LET cs   == Chars(s)
        keep == { i \in 1..Len(cs) : cs[i] # " " }
    IN  IF keep = {} THEN ""
        ELSE Str(SubSeq(cs, CHOOSE i \in keep : \A j \in keep : i <= j,
                            CHOOSE i \in keep : \A j \in keep : i >= j))

\* ------------------------------------------------------------ arithmetic
Abs(x) == IF x < 0 THEN -x ELSE x

RECURSIVE SqrtSearch(_, _, _)
SqrtSearch(n, lo, hi) ==
    IF lo >= hi THEN lo
    ELSE LET mid == (lo + hi + 1) \div 2
         IN  IF mid * mid <= n THEN SqrtSearch(n, mid, hi)
             ELSE SqrtSearch(n, lo, mid - 1)

\* floor(sqrt(n)) for 0 <= n < 2^31.
ISqrt(n) == SqrtSearch(n, 0, 46340)

\* np.cos of a latitude given in ticks, in units of 1e-4 (Taylor series up
\* to x^6 on the angle in units of 1e-4 radian; exact to 1e-4 below 60 deg).
CosE4(t) ==
    LET x  == (Abs(t) * 1745) \div 100000
        x2 == (x * x) \div 10000
        x4 == (x2 * x2) \div 10000
        x6 == (x4 * x2) \div 10000
    IN  10000 - (x2 \div 2) + (x4 \div 24) - (x6 \div 720)

\* An arc of `t` ticks on the sphere of radius R, in dam: R * np.radians(t),
\* the angle taken in tenths of a microradian (1 tick = 17.453 of them).
ArcDam(t) == (((Abs(t) * 17453) \div 1000) * (R \div 100)) \div 100000

\* calculate_distance: the haversine distance in dam.  For the separations
\* of the model (below 2 degrees) sin(x/2)^2 = (x/2)^2 and arcsin(y) = y to
\* within 1e-4, so R*c = sqrt((R dlat)^2 + cos(lat1) cos(lat2) (R dlon)^2).
calculate_distance(lat1, lon1, lat2, lon2) ==
    LET y  == ArcDam(lat2 - lat1)
        x  == ArcDam(lon2 - lon1)
        x1 == (x * CosE4(lat1)) \div 10000
        x2 == (x * CosE4(lat2)) \div 10000
    IN  ISqrt(y * y + x1 * x2)

\* round(distance, 1): decametres to tenths of a km.
RoundKm1(dam) == (dam + 5) \div 10

\* round(num / den, 0) for num >= 0, den > 0 (nearest, halves up).
RoundDiv(num, den) == (2 * num + den) \div (2 * den)

\* --------------------------------------------------------- external world
\* What requests.get(...).json() can do: raise (transport error, timeout,
\* body that is no JSON), or give a dict.
Raises == [raises |-> TRUE]
Body(d) == [raises |-> FALSE, data |-> d]

\* The coordinate the geocoder resolves: (45.0, 9.0).
GEO_COORD == << 450000, 90000 >>

GeocodeResponses ==
    { Raises,
      Body([status |-> "OK",
            results |-> << [geometry |-> [location |->
                              [lat |-> GEO_COORD[1], lng |-> GEO_COORD[2]]]] >>]),
      Body([status |-> "OK", results |-> << >>]),
      Body([status |-> "ZERO_RESULTS", results |-> << >>]),
      Body([status |-> "OK", results |-> << [formatted_address |-> "Bergamo"] >>]),
      Body([error_message |-> "denied"]) }

\* Places the Places API may return, around GEO_COORD.
PlaceEsselunga ==
    [name |-> "Esselunga", vicinity |-> "Via Roma 1", rating |-> 42,
     user_ratings_total |-> 200, place_id |-> "g1",
     opening_hours |-> [open_now |-> "True"],
     geometry |-> [location |-> [lat |-> 450100, lng |-> 90100]]]

\* A second place of the same name, 6.7 km from GEO_COORD.
PlaceEsselungaFar ==
    [name |-> "Esselunga", vicinity |-> "   ", rating |-> 39,
     user_ratings_total |-> 50, place_id |-> "g2",
     opening_hours |-> [open_now |-> "False"],
     geometry |-> [location |-> [lat |-> 450600, lng |-> 90000]]]

PlaceConad ==
    [name |-> "Conad", vicinity |-> "Via Roma 1", place_id |-> "g3",
     geometry |-> [location |-> [lat |-> 450300, lng |-> 90300]]]

PlaceNaturaSi ==
    [name |-> "NaturaSi^", rating |-> 45, user_ratings_total |-> 12,
     opening_hours |-> [weekday_text |-> "x"],
     geometry |-> [location |-> [lat |-> 450000, lng |-> 90200]]]

\* 27.8 km from GEO_COORD.
PlaceLidl ==
    [name |-> "Lidl", vicinity |-> "Via Roma 1", rating |-> 40,
     user_ratings_total |-> 900, place_id |-> "g5",
     geometry |-> [location |-> [lat |-> 452500, lng |-> 90000]]]

\* 0.7 km from GEO_COORD.
PlaceFresco ==
    [name |-> "Fresco", vicinity |-> "Via Roma 1", rating |-> 44,
     user_ratings_total |-> 30, place_id |-> "g8",
     geometry |-> [location |-> [lat |-> 450050, lng |-> 90050]]]

\* Place objects with missing fields.
PlaceNoName == [place_id |-> "g6",
                geometry |-> [location |-> [lat |-> 450100, lng |-> 90100]]]
PlaceNoGeometry == [name |-> "Coop", place_id |-> "g7"]

OkResults(ps) == Body([status |-> "OK", results |-> ps])

\* ------------------------------------------------------- ShoppingFinder
\* Result of a call: a returned value, or an exception that propagates.
Returned(v) == [raised |-> FALSE, value |-> v]
Raised == [raised |-> TRUE]

\* d['geometry']['location']['lat'] and ['lng'] can be read.
HasLatLng(d) ==
    /\ "geometry" \in DOMAIN d
    /\ "location" \in DOMAIN d.geometry
    /\ "lat" \in DOMAIN d.geometry.location
    /\ "lng" \in DOMAIN d.geometry.location

\* Mutant of geocode_location: the request outside the try block, so a
\* transport error propagates.
geocode_location_unguarded(resp) ==
    IF resp.raises THEN Raised
    ELSE LET data == resp.data IN
         IF "status" \notin DOMAIN data \/ "results" \notin DOMAIN data
         THEN Returned(FALLBACK_COORD)
         ELSE IF data.status = "OK" /\ data.results # << >>
              THEN IF HasLatLng(data.results[1])
                   THEN Returned(<< data.results[1].geometry.location.lat,
                                    data.results[1].geometry.location.lng >>)
                   ELSE Returned(FALLBACK_COORD)
              ELSE Returned(FALLBACK_COORD)

\* geocode_location on the outcome `resp` of its HTTP call.  The request
\* and every lookup sit in the try block: an exception of the request and
\* a KeyError of a lookup both end in the fallback coordinate.
geocode_location(resp) ==
    IF resp.raises THEN Returned(FALLBACK_COORD)
    ELSE LET data == resp.data IN
         IF "status" \notin DOMAIN data THEN Returned(FALLBACK_COORD)
         ELSE IF data.status = "OK"
              THEN IF "results" \notin DOMAIN data
                   THEN Returned(FALLBACK_COORD)
                   ELSE IF data.results # << >>
                        THEN IF HasLatLng(data.results[1])
                             THEN Returned(<< data.results[1].geometry.location.lat,
                                              data.results[1].geometry.location.lng >>)
                             ELSE Returned(FALLBACK_COORD)
                        ELSE Returned(FALLBACK_COORD)
              ELSE Returned(FALLBACK_COORD)

\* search_places_nearby on the outcome of its HTTP call.
search_places_nearby(resp) ==
    IF resp.raises THEN Returned(<< >>)
    ELSE LET data == resp.data IN
         IF "status" \notin DOMAIN data THEN Returned(<< >>)
         ELSE IF data.status = "OK"
              THEN IF "results" \in DOMAIN data
                   THEN Returned(data.results) ELSE Returned(<< >>)
              ELSE Returned(<< >>)

\* search_places_text on the outcome of its HTTP call.
search_places_text(resp) ==
    IF resp.raises THEN Returned(<< >>)
    ELSE LET data == resp.data IN
         IF "status" \notin DOMAIN data THEN Returned(<< >>)
         ELSE IF data.status = "OK"
              THEN IF "results" \in DOMAIN data
                   THEN Returned(data.results) ELSE Returned(<< >>)
              ELSE Returned(<< >>)

\* Mutant of AvailabilityProb: the adjustment for the item dropped.
AvailabilityProbStoreOnly(store_name, item) ==
    LET store_lower == Lower(Chars(store_name))
    IN  IF AnyIn(store_lower, {"lidl", "eurospin", "md", "discount"})
        THEN 600
        ELSE IF AnyIn(store_lower, {"naturasi^", "bio", "naturale", "fresco"})
        THEN 800
        ELSE IF AnyIn(store_lower, {"esselunga", "carrefour", "coop", "iper"})
        THEN 750
        ELSE 700

\* The probability (thousandths) determine_available_products compares
\* the draw for `item` in `store_name` with.
AvailabilityProb(store_name, item) ==
    LET store_lower == Lower(Chars(store_name))
        item_lower  == Lower(Chars(item))
        base == IF AnyIn(store_lower, {"lidl", "eurospin", "md", "discount"})
                THEN 600
                ELSE IF AnyIn(store_lower, {"naturasi^", "bio", "naturale", "fresco"})
                THEN 800
                ELSE IF AnyIn(store_lower, {"esselunga", "carrefour", "coop", "iper"})
                THEN 750
                ELSE 700
    IN  IF AnyIn(item_lower, {"bio", "naturale", "vegano", "integrale"})
        THEN IF AnyIn(store_lower, {"naturasi^", "bio"}) THEN 900 ELSE 400
        ELSE base

\* determine_available_products: `draws[i]` is the value np.random.random()
\* gives for items[i]; the items whose draw is below the probability, in
\* list order.
RECURSIVE AvailableFrom(_, _, _, _)
AvailableFrom(store_name, items_, draws, i) ==
    IF i > Len(items_) THEN << >>
    ELSE (IF draws[i] < AvailabilityProb(store_name, items_[i])
          THEN << items_[i] >> ELSE << >>)
         \o AvailableFrom(store_name, items_, draws, i + 1)

determine_available_products(store_name, items_, draws) ==
    AvailableFrom(store_name, items_, draws, 1)

\* dict.get(key, default)
Get(d, key, default) == IF key \in DOMAIN d THEN d[key] ELSE default

\* round((match_count / len(items)) * 100, 1), in tenths of a percent.
MatchPercentage(match_count, n) == RoundDiv(1000 * match_count, n)

\* The address of a live record: vicinity, or the sentinel when it is
\* missing, blank or the old sentinel.
Address(place) ==
    LET address == Get(place, "vicinity", "Info non disponibili") IN
    IF address = "Indirizzo non disponibile"
       \/ (address # "Info non disponibili" /\ IsBlank(address))
    THEN "Info non disponibili" ELSE address

\* Mutant of LiveRecord: missing_products without the subtraction.
LiveRecordMissingAll(place, store_name, distance, available_products, items_) ==
    [name               |-> store_name,
     address            |-> Address(place),
     distance_km        |-> RoundKm1(distance),
     rating             |-> Get(place, "rating", 40),
     user_ratings_total |-> Get(place, "user_ratings_total", 100),
     products_found     |-> available_products,
     products_count     |-> Len(available_products),
     missing_products   |-> Len(items_),
     has_all_products   |-> (Len(available_products) = Len(items_)),
     total_items        |-> Len(items_),
     match_percentage   |-> MatchPercentage(Len(available_products), Len(items_)),
     recommended        |-> (Len(available_products) = Len(items_)),
     place_id           |-> Get(place, "place_id", ""),
     opening_now        |->
         Get(Get(place, "opening_hours", << >>), "open_now", "None")]

\* The dict search_stores appends for a live place within range.
LiveRecord(place, store_name, distance, available_products, items_) ==
    LET match_count == Len(available_products)
        missing_products == Len(items_) - match_count
        has_all_products == (match_count = Len(items_))
    IN  [name               |-> store_name,
         address            |-> Address(place),
         distance_km        |-> RoundKm1(distance),
         rating             |-> Get(place, "rating", 40),
         user_ratings_total |-> Get(place, "user_ratings_total", 100),
         products_found     |-> available_products,
         products_count     |-> match_count,
         missing_products   |-> missing_products,
         has_all_products   |-> has_all_products,
         total_items        |-> Len(items_),
         match_percentage   |-> MatchPercentage(match_count, Len(items_)),
         recommended        |-> has_all_products,
         place_id           |-> Get(place, "place_id", ""),
         opening_now        |->
             Get(Get(place, "opening_hours", << >>), "open_now", "None")]

\* The id 'fallback_<i>' of the i-th fallback store (i from 0).
FallbackId(i) ==
    CASE i = 0 -> "fallback_0" [] i = 1 -> "fallback_1" [] i = 2 -> "fallback_2"
      [] i = 3 -> "fallback_3" [] i = 4 -> "fallback_4" [] i = 5 -> "fallback_5"
      [] OTHER -> "fallback_n"

FallbackIds == { FallbackId(i) : i \in 0..FallbackCount }

\* The dict get_fallback_stores appends for store i; u_rating and u_reviews
\* are the draws behind np.random.uniform(3.8, 4.6) and randint(100, 1500).
FallbackRecord(i, store_name, distance, available_products, items_, u_rating, u_reviews) ==
    LET match_count == Len(available_products)
        missing_products == Len(items_) - match_count
        has_all_products == (match_count = Len(items_))
    IN  [name               |-> store_name,
         address            |-> "Info non disponibili",
         distance_km        |-> RoundKm1(distance),
         rating             |-> RoundDiv(380 + (80 * u_rating) \div 1000, 10),
         user_ratings_total |-> 100 + (1400 * u_reviews) \div 1000,
         products_found     |-> available_products,
         products_count     |-> match_count,
         missing_products   |-> missing_products,
         has_all_products   |-> has_all_products,
         total_items        |-> Len(items_),
         match_percentage   |-> MatchPercentage(match_count, Len(items_)),
         recommended        |-> has_all_products,
         place_id           |-> FallbackId(i),
         opening_now        |-> "True"]

\* analyze_results: None for an empty list, else the summary (the averages
\* and the DataFrame repeat the list and are left out).
RECURSIVE MaxCount(_)
MaxCount(stores) ==
    IF Len(stores) = 1 THEN stores[1].products_count
    ELSE LET m == MaxCount(Tail(stores)) IN
         IF stores[1].products_count > m THEN stores[1].products_count ELSE m

RECURSIVE MinCount(_)
MinCount(stores) ==
    IF Len(stores) = 1 THEN stores[1].products_count
    ELSE LET m == MinCount(Tail(stores)) IN
         IF stores[1].products_count < m THEN stores[1].products_count ELSE m

\* Mutant of analyze_results: max and min taken for each other.
analyze_results_swapped(stores, total_items) ==
    IF stores = << >> THEN None
    ELSE [summary |->
            [total_stores |-> Len(stores),
             total_products |-> total_items,
             stores_with_all_products |->
                 Cardinality({i \in 1..Len(stores) : stores[i].has_all_products}),
             max_products_in_store |-> MinCount(stores),
             min_products_in_store |-> MaxCount(stores)]]

analyze_results(stores, total_items) ==
    IF stores = << >> THEN None
    ELSE [summary |->
            [total_stores |-> Len(stores),
             total_products |-> total_items,
             stores_with_all_products |->
                 Cardinality({i \in 1..Len(stores) : stores[i].has_all_products}),
             max_products_in_store |-> MaxCount(stores),
             min_products_in_store |-> MinCount(stores)]]

\* ------------------------------------------------------------- the state
VARIABLES
    search_results,         \* st.session_state.search_results
    clock,                  \* search actions so far; datetime.now() of a result
    seed, rng_pos,          \* np.random: the stream and the position in it
    pc,                     \* where the search handler of main() stands
    items, location, max_distance,   \* the widgets' values of this script run
    message,                \* what the handler showed: success / no_stores / error
    calls,                  \* the HTTP requests of this search, in order
    response,               \* outcome of the latest HTTP request
    user_latlon, places, text_i,     \* locals of search_stores
    idx, store_names_processed, stores_data,
    fb_i, fallback_stores   \* locals of get_fallback_stores

vars == << search_results, clock, seed, rng_pos, pc, items, location,
           max_distance, message, calls, response, user_latlon, places,
           text_i, idx, store_names_processed, stores_data, fb_i,
           fallback_stores >>

\* ------------------------------------------------------------ the inputs
\* Values np.random yields (thousandths): one below every probability of
\* the availability table, one above them all.
DrawValues == {250, 999}

\* Lines the user may type in the text area (or upload).
TextPool == << " pasta ", "", "Latte Bio", "   ", "pane " >>

\* `if item.strip()`
NonEmptyLine(line) == strip(line) # ""

\* main(): items = [item.strip() for item in items_text.split('\n')
\*                  if item.strip()], items_text given as its lines; an
\* empty text leaves items = [].
ParseItems(lines) ==
    IF lines = << "" >> THEN << >>
    ELSE LET kept == SelectSeq(lines, NonEmptyLine)
         IN  [i \in 1..Len(kept) |-> strip(kept[i])]

\* The texts entered: none, blank lines only, and the first lines of
\* TextPool that give at most MaxItems items.
ItemTexts ==
    { << "" >>, << "   ", "" >> }
        \cup { t \in { SubSeq(TextPool, 1, n) : n \in 1..Len(TextPool) } :
                 Len(ParseItems(t)) <= MaxItems }

\* One search of a fresh session, over every response of the services.
FullScope ==
    [searches  |-> 1,
     seeds     |-> [1..RngPeriod -> DrawValues],
     texts     |-> ItemTexts,
     locations |-> {"Bergamo", "   ", ""},
     dists     |-> {SliderMin, 5, 8, SliderMax},
     geocode   |-> GeocodeResponses,
     nearby    |-> { Raises,
                     Body([status |-> "ZERO_RESULTS", results |-> << >>]),
                     Body([status |-> "OK"]),
                     OkResults(<< PlaceEsselunga >>),
                     OkResults(<< PlaceEsselungaFar, PlaceEsselunga >>),
                     OkResults(<< PlaceLidl, PlaceConad >>),
                     OkResults(<< PlaceConad, PlaceNoName >>),
                     OkResults(<< PlaceEsselunga, PlaceConad, PlaceNaturaSi >>),
                     OkResults(<< PlaceEsselunga, PlaceLidl, PlaceEsselungaFar,
                                  PlaceConad, PlaceNaturaSi >>),
                     OkResults(<< PlaceLidl, PlaceNoGeometry, PlaceConad >>) },
     text      |-> { Raises,
                     Body([status |-> "ZERO_RESULTS", results |-> << >>]),
                     OkResults(<< PlaceEsselunga >>) }]

\* A session of several searches, over fewer responses.
SessionScope ==
    [searches  |-> MaxSearches,
     seeds     |-> { [i \in 1..RngPeriod |-> u] : u \in DrawValues },
     texts     |-> ItemTexts,
     locations |-> {"Bergamo", "Dalmine", "   "},
     dists     |-> {SliderMin, 8},
     geocode   |-> { Raises, Body([status |-> "OK",
                       results |-> << [geometry |-> [location |->
                          [lat |-> GEO_COORD[1], lng |-> GEO_COORD[2]]]] >>]) },
     nearby    |-> { Raises,
                     OkResults(<< PlaceEsselunga, PlaceEsselungaFar >>),
                     OkResults(<< PlaceConad, PlaceNoName >>),
                     OkResults(<< PlaceNoGeometry >>),
                     OkResults(<< PlaceEsselunga, PlaceConad, PlaceNaturaSi >>) },
     text      |-> { Raises }]

\* Values np.random yields (thousandths), one in every interval the
\* probabilities 0.4, 0.6, 0.7, 0.75, 0.8, 0.9 cut [0, 1) into.
EstimatorDraws == {250, 500, 650, 725, 775, 850, 999}

\* One search of a fresh session, over every interval of the draws.
EstimatorScope ==
    [searches  |-> 1,
     seeds     |-> [1..RngPeriod -> EstimatorDraws],
     texts     |-> ItemTexts,
     locations |-> {"Bergamo", ""},
     dists     |-> {SliderMin, 8},
     geocode   |-> { Body([status |-> "OK",
                       results |-> << [geometry |-> [location |->
                          [lat |-> GEO_COORD[1], lng |-> GEO_COORD[2]]]] >>]) },
     nearby    |-> { Raises,
                     OkResults(<< PlaceEsselunga, PlaceEsselungaFar,
                                  PlaceNaturaSi, PlaceLidl, PlaceFresco,
                                  PlaceConad >>),
                     OkResults(<< PlaceConad, PlaceNoName >>),
                     OkResults(<< PlaceNoGeometry >>) },
     text      |-> { Raises }]

\* The k-th next value of the random stream (k from 0).
Draw(k) == seed[((rng_pos + k) % RngPeriod) + 1]

\* The stream after n draws.
Advance(n) == (rng_pos + n) % RngPeriod

InitOf(sc) ==
    /\ search_results = None
    /\ clock = 0
    /\ seed \in sc.seeds
    /\ rng_pos = 0
    /\ pc = "idle"
    /\ items = << >>
    /\ location = ""
    /\ max_distance = 5
    /\ message = "none"
    /\ calls = << >>
    /\ response = None
    /\ user_latlon = << 0, 0 >>
    /\ places = << >>
    /\ text_i = 0
    /\ idx = 1
    /\ store_names_processed = {}
    /\ stores_data = << >>
    /\ fb_i = 0
    /\ fallback_stores = << >>

\* The locals of search_stores and get_fallback_stores go with the call.
DropLocals ==
    /\ response' = None
    /\ user_latlon' = << 0, 0 >>
    /\ places' = << >>
    /\ text_i' = 0
    /\ idx' = 1
    /\ store_names_processed' = {}
    /\ stores_data' = << >>
    /\ fb_i' = 0
    /\ fallback_stores' = << >>

\* main(): `except Exception as e: st.error(...)` around the search.
MainExcept ==
    /\ message' = "error"
    /\ pc' = "idle"
    /\ DropLocals
    /\ UNCHANGED << search_results, clock, seed, rng_pos, items, location,
                    max_distance >>

\* Mutant of ButtonDisabled: only the location is tested.
ButtonDisabledByLocation(its, loc) == IsBlank(loc)

\* st.button(..., disabled=len(items) == 0 or not location.strip())
ButtonDisabled(its, loc) == Len(its) = 0 \/ IsBlank(loc)

\* main(): the user sets the widgets and presses the search button, which
\* works only while it is not disabled.
Press(sc) ==
    /\ pc = "idle"
    /\ clock < sc.searches
    /\ \E text \in sc.texts, loc \in sc.locations, d \in sc.dists :
          LET its == ParseItems(text) IN
          /\ ~ButtonDisabled(its, loc)
          /\ d \in SliderMin..SliderMax
          /\ items' = its
          /\ location' = loc
          /\ max_distance' = d
    /\ clock' = clock + 1
    /\ message' = "none"
    /\ calls' = << >>
    /\ pc' = "geocode"
    /\ UNCHANGED << search_results, seed, rng_pos, response, user_latlon,
                    places, text_i, idx, store_names_processed, stores_data,
                    fb_i, fallback_stores >>

\* search_stores: user_lat, user_lon = self.geocode_location(location)
Geocode(sc) ==
    /\ pc = "geocode"
    /\ \E resp \in sc.geocode :
          LET r == geocode_location(resp) IN
          /\ calls' = Append(calls, [api |-> "geocode", query |-> location])
          /\ IF r.raised
             THEN MainExcept
             ELSE /\ response' = resp
                  /\ user_latlon' = r.value
                  /\ pc' = "nearby"
                  /\ UNCHANGED << search_results, clock, seed, rng_pos, items,
                                  location, max_distance, message, places,
                                  text_i, idx, store_names_processed,
                                  stores_data, fb_i, fallback_stores >>

\* search_stores: places = self.search_places_nearby(...); the text
\* searches follow when it gave fewer than 3 places.
Nearby(sc) ==
    /\ pc = "nearby"
    /\ \E resp \in sc.nearby :
          LET r == search_places_nearby(resp) IN
          /\ calls' = Append(calls, [api |-> "nearby", query |-> ""])
          /\ IF r.raised
             THEN MainExcept
             ELSE /\ response' = resp
                  /\ places' = r.value
                  /\ IF Len(r.value) < MinPlaces
                     THEN pc' = "text" /\ text_i' = 1
                     ELSE pc' = "aggregate" /\ text_i' = 0
                  /\ UNCHANGED << search_results, clock, seed, rng_pos, items,
                                  location, max_distance, message, user_latlon,
                                  idx, store_names_processed, stores_data,
                                  fb_i, fallback_stores >>

\* search_stores: one turn of `for store_name in self.common_stores[:3]`.
Text(sc) ==
    /\ pc = "text"
    /\ \E resp \in sc.text :
          LET r == search_places_text(resp) IN
          /\ calls' = Append(calls, [api |-> "text", query |-> common_stores[text_i]])
          /\ IF r.raised
             THEN MainExcept
             ELSE /\ response' = resp
                  /\ places' = places \o r.value
                  /\ IF text_i < TextSearchCount
                     THEN pc' = "text" /\ text_i' = text_i + 1
                     ELSE pc' = "aggregate" /\ text_i' = 0
                  /\ UNCHANGED << search_results, clock, seed, rng_pos, items,
                                  location, max_distance, message, user_latlon,
                                  idx, store_names_processed, stores_data,
                                  fb_i, fallback_stores >>

\* The draws determine_available_products takes, the stream being k draws on.
ItemDraws(k) == [i \in 1..Len(items) |-> Draw(k + i - 1)]

\* Mutant of AlreadyProcessed: the duplicate test dropped.
NeverProcessed(store_name, processed) == FALSE

\* `if store_name in store_names_processed: continue`
AlreadyProcessed(store_name, processed) == store_name \in processed

\* Mutant of WithinRange: the distance test dropped.
WithinRangeAlways(distance, max_distance_km) == TRUE

\* Mutant of WithinRange: the distance taken in metres against the radius.
WithinRangeMetres(distance, max_distance_km) == distance * 10 <= max_distance_km

\* `if distance <= max_distance_km:` (distance in dam).
WithinRange(distance, max_distance_km) == distance <= max_distance_km * 100

\* The distance of a place from the user's coordinate.
PlaceDistance(place) ==
    calculate_distance(user_latlon[1], user_latlon[2],
                       place.geometry.location.lat, place.geometry.location.lng)

\* search_stores: one turn of `for place in places`.
Aggregate ==
    /\ pc = "aggregate"
    /\ idx <= Len(places)
    /\ LET place == places[idx] IN
       \/ \* place['name'] raises KeyError
          /\ "name" \notin DOMAIN place
          /\ MainExcept
          /\ UNCHANGED calls
       \/ \* a name already processed: continue
          /\ "name" \in DOMAIN place
          /\ AlreadyProcessed(place.name, store_names_processed)
          /\ idx' = idx + 1
          /\ UNCHANGED << store_names_processed, stores_data, rng_pos,
                          pc, message, response, user_latlon, places, text_i,
                          fb_i, fallback_stores, search_results, clock, seed,
                          items, location, max_distance, calls >>
       \/ \* the name is recorded, then place['geometry'] raises KeyError
          /\ "name" \in DOMAIN place
          /\ ~AlreadyProcessed(place.name, store_names_processed)
          /\ ~HasLatLng(place)
          /\ MainExcept
          /\ UNCHANGED calls
       \/ \* a new name beyond max_distance_km: recorded, no record
          /\ "name" \in DOMAIN place
          /\ ~AlreadyProcessed(place.name, store_names_processed)
          /\ HasLatLng(place)
          /\ ~WithinRange(PlaceDistance(place), max_distance)
          /\ store_names_processed' = store_names_processed \cup {place.name}
          /\ idx' = idx + 1
          /\ UNCHANGED << stores_data, rng_pos,
                          pc, message, response, user_latlon, places, text_i,
                          fb_i, fallback_stores, search_results, clock, seed,
                          items, location, max_distance, calls >>
       \/ \* a new name within max_distance_km: a record is appended
          /\ "name" \in DOMAIN place
          /\ ~AlreadyProcessed(place.name, store_names_processed)
          /\ HasLatLng(place)
          /\ LET distance == PlaceDistance(place)
                 available_products ==
                     determine_available_products(place.name, items, ItemDraws(0))
             IN  /\ WithinRange(distance, max_distance)
                 /\ stores_data' = Append(stores_data,
                        LiveRecord(place, place.name, distance,
                                   available_products, items))
          /\ rng_pos' = Advance(Len(items))
          /\ store_names_processed' = store_names_processed \cup {place.name}
          /\ idx' = idx + 1
          /\ UNCHANGED << pc, message, response, user_latlon, places, text_i,
                          fb_i, fallback_stores, search_results, clock, seed,
                          items, location, max_distance, calls >>

\* Mutant of AggregateDone: get_fallback_stores called whatever the count.
AggregateDoneAlways ==
    /\ pc = "aggregate"
    /\ idx > Len(places)
    /\ pc' = "fallback"
    /\ UNCHANGED << search_results, clock, seed, rng_pos, items, location,
                    max_distance, message, calls, response, user_latlon,
                    places, text_i, idx, store_names_processed, stores_data,
                    fb_i, fallback_stores >>

\* search_stores: after the loop, `if len(stores_data) < 3` starts
\* get_fallback_stores.
AggregateDone ==
    /\ pc = "aggregate"
    /\ idx > Len(places)
    /\ IF Len(stores_data) < MinStores
       THEN pc' = "fallback"
       ELSE pc' = "return"
    /\ UNCHANGED << search_results, clock, seed, rng_pos, items, location,
                    max_distance, message, calls, response, user_latlon,
                    places, text_i, idx, store_names_processed, stores_data,
                    fb_i, fallback_stores >>

\* Mutant of Perturbation: np.random.uniform(-0.5, 0.5).
PerturbationTenfold(u) == 10 * u - 5000

\* np.random.uniform(-0.05, 0.05) for the draw u, in ticks.
Perturbation(u) == u - 500

\* get_fallback_stores: one turn of
\* `for i, store_name in enumerate(self.common_stores[:6])`.
Fallback ==
    /\ pc = "fallback"
    /\ fb_i < FallbackCount
    /\ LET store_name == common_stores[fb_i + 1]
           store_lat == user_latlon[1] + Perturbation(Draw(0))
           store_lng == user_latlon[2] + Perturbation(Draw(1))
           distance == calculate_distance(user_latlon[1], user_latlon[2],
                                          store_lat, store_lng)
           n == Len(items)
       IN  \/ /\ WithinRange(distance, max_distance)
              /\ fallback_stores' = Append(fallback_stores,
                    FallbackRecord(fb_i, store_name, distance,
                        determine_available_products(store_name, items, ItemDraws(2)),
                        items, Draw(n + 2), Draw(n + 3)))
              /\ rng_pos' = Advance(n + 4)
           \/ /\ ~WithinRange(distance, max_distance)
              /\ rng_pos' = Advance(2)
              /\ UNCHANGED fallback_stores
    /\ fb_i' = fb_i + 1
    /\ UNCHANGED << search_results, clock, seed, items, location,
                    max_distance, message, calls, response, user_latlon,
                    places, text_i, idx, store_names_processed, stores_data,
                    pc >>

\* get_fallback_stores returns; search_stores:
\* stores_data.extend(self.get_fallback_stores(...)).
FallbackDone ==
    /\ pc = "fallback"
    /\ fb_i = FallbackCount
    /\ stores_data' = stores_data \o fallback_stores
    /\ pc' = "return"
    /\ UNCHANGED << search_results, clock, seed, rng_pos, items, location,
                    max_distance, message, calls, response, user_latlon,
                    places, text_i, idx, store_names_processed, fb_i,
                    fallback_stores >>

\* The dict main() stores in st.session_state.search_results.
SearchResult(stores, analysis) ==
    [stores      |-> stores,
     summary     |-> analysis.summary,
     location    |-> location,
     total_items |-> Len(items),
     timestamp   |-> clock]

\* Mutant of Finish: the test `if stores_data:` dropped, so that the
\* result of an empty search is stored too.
FinishAlwaysStore ==
    /\ pc = "return"
    /\ LET analysis == analyze_results(stores_data, Len(items)) IN
          search_results' =
              [stores      |-> stores_data,
               summary     |-> IF analysis = None THEN None ELSE analysis.summary,
               location    |-> location,
               total_items |-> Len(items),
               timestamp   |-> clock]
    /\ message' = "success"
    /\ pc' = "idle"
    /\ DropLocals
    /\ UNCHANGED << clock, seed, rng_pos, items, location, max_distance, calls >>

\* search_stores returns stores_data; main(): `if stores_data:` stores the
\* result, `else:` reports that no store was found.  Unpacking None
\* (`summary, df = None`) raises TypeError.
Finish ==
    /\ pc = "return"
    /\ \/ /\ stores_data # << >>
          /\ LET analysis == analyze_results(stores_data, Len(items)) IN
             IF analysis = None
             THEN message' = "error" /\ UNCHANGED search_results
             ELSE /\ search_results' = SearchResult(stores_data, analysis)
                  /\ message' = "success"
       \/ /\ stores_data = << >>
          /\ message' = "no_stores"
          /\ UNCHANGED search_results
    /\ pc' = "idle"
    /\ DropLocals
    /\ UNCHANGED << clock, seed, rng_pos, items, location, max_distance, calls >>

\* main(), the results block: recommended_stores and other_stores.
IsRecommended(s) == s.recommended
NotRecommended(s) == ~s.recommended

recommended_stores(stores) == SelectSeq(stores, IsRecommended)

other_stores(stores) == SelectSeq(stores, NotRecommended)

\* Mutant of SortedByCount: reverse=True dropped.
RECURSIVE SortedByCountAscending(_)
SortedByCountAscending(stores) ==
    IF stores = << >> THEN << >>
    ELSE LET n    == Len(stores)
             x    == stores[n]
             rest == SortedByCountAscending(SubSeq(stores, 1, n - 1))
             k    == Cardinality({ i \in 1..Len(rest) :
                         rest[i].products_count <= x.products_count })
         IN  SubSeq(rest, 1, k) \o << x >> \o SubSeq(rest, k + 1, Len(rest))

\* sorted(stores, key=lambda x: x['products_count'], reverse=True): a
\* stable sort, each store going after those sorted so far whose count is
\* not smaller.
RECURSIVE SortedByCount(_)
SortedByCount(stores) ==
    IF stores = << >> THEN << >>
    ELSE LET n    == Len(stores)
             x    == stores[n]
             rest == SortedByCount(SubSeq(stores, 1, n - 1))
             k    == Cardinality({ i \in 1..Len(rest) :
                         rest[i].products_count >= x.products_count })
         IN  SubSeq(rest, 1, k) \o << x >> \o SubSeq(rest, k + 1, Len(rest))

\* The label create_visualizations gives a count of missing products
\* (f'Mancano <missing> prodotti' kept as its parts).
MissingCategory(missing) ==
    CASE missing = 0 -> "Tutti i prodotti"
      [] missing = 1 -> "Manca 1 prodotto"
      [] missing = 2 -> "Mancano 2 prodotti"
      [] OTHER       -> << "Mancano", missing, "prodotti" >>

\* create_visualizations: None for an empty list, else the two figures
\* (the categories of the pie chart, the heights of the bar chart).
create_visualizations(stores) ==
    IF stores = << >> THEN None
    ELSE [fig1 |-> [i \in 1..Len(stores) |->
                       MissingCategory(stores[i].missing_products)],
          fig2 |-> [i \in 1..Len(stores) |-> stores[i].user_ratings_total]]

\* main(), the results block: the cards rendered, in order, from the
\* stored result (none while search_results is None).
RenderedRecommended ==
    IF search_results = None THEN << >>
    ELSE recommended_stores(search_results.stores)

RenderedOthers ==
    IF search_results = None THEN << >>
    ELSE SortedByCount(other_stores(search_results.stores))

NextOf(sc) ==
    \/ Press(sc)
    \/ Geocode(sc)
    \/ Nearby(sc)
    \/ Text(sc)
    \/ Aggregate
    \/ AggregateDone
    \/ Fallback
    \/ FallbackDone
    \/ Finish

Init == InitOf(FullScope)
Next == NextOf(FullScope)
Spec == Init /\ [][Next]_vars

InitSession == InitOf(SessionScope)
NextSession == NextOf(SessionScope)
SpecSession == InitSession /\ [][NextSession]_vars

InitEstimator == InitOf(EstimatorScope)
NextEstimator == NextOf(EstimatorScope)
SpecEstimator == InitEstimator /\ [][NextEstimator]_vars

\* ------------------------------------------------------------ properties
\* search_stores has returned: stores_data is the list it returns.
HasReturned == pc = "return"

RecordsOf(stores) == { stores[i] : i \in 1..Len(stores) }

IsFallbackRecord(s) == s.place_id \in FallbackIds

LiveIdx(stores) == { i \in 1..Len(stores) : ~IsFallbackRecord(stores[i]) }

FallbackIdx(stores) == { i \in 1..Len(stores) : IsFallbackRecord(stores[i]) }

\* The place is the first of its name in `places`.
FirstOfName(i) == \A j \in 1..(i - 1) : places[j].name # places[i].name

\* C1: in every record search_stores returns, live or fallback, the matched
\* and the missing counts add up to total_items, which is the number of
\* requested items, whatever the availability draws were.
C1_CountsAddUp ==
    HasReturned =>
        \A s \in RecordsOf(stores_data) :
            /\ s.products_count + s.missing_products = s.total_items
            /\ s.total_items = Len(items)
            /\ s.products_count = Len(s.products_found)

\* C1 witness: a returned list with a live and a fallback record, each
\* with some items matched and some missing.
C1_Witness ==
    /\ HasReturned
    /\ \E s \in RecordsOf(stores_data) :
          ~IsFallbackRecord(s) /\ s.products_count > 0 /\ s.missing_products > 0
    /\ \E s \in RecordsOf(stores_data) :
          IsFallbackRecord(s) /\ s.products_count > 0 /\ s.missing_products > 0

\* C2: no record of the returned list lies farther from the origin than
\* max_distance_km: a live record's place is within the radius, every
\* record's distance_km is at most the radius, and the fallback generator
\* appends a store only when its perturbed coordinate is within the radius.
C2_InRangeState ==
    HasReturned =>
        /\ \A s \in RecordsOf(stores_data) : s.distance_km <= max_distance * 10
        /\ \A i \in LiveIdx(stores_data) :
              \E j \in 1..Len(places) :
                  /\ places[j].name = stores_data[i].name
                  /\ FirstOfName(j)
                  /\ PlaceDistance(places[j]) <= max_distance * 100

C2_InRangeStep ==
    (pc = "fallback" /\ Len(fallback_stores') > Len(fallback_stores)) =>
        calculate_distance(user_latlon[1], user_latlon[2],
                           user_latlon[1] + Perturbation(Draw(0)),
                           user_latlon[2] + Perturbation(Draw(1)))
            <= max_distance * 100

C2_NoneBeyondRadius == [](C2_InRangeState) /\ [][C2_InRangeStep]_vars

\* C2 witness: a returned list holding a live and a fallback record while
\* a place and a fallback store were left out for their distance.
C2_Witness ==
    /\ HasReturned
    /\ \E s \in RecordsOf(stores_data) : ~IsFallbackRecord(s)
    /\ \E j \in 1..Len(places) :
          FirstOfName(j) /\ PlaceDistance(places[j]) > max_distance * 100
    /\ Cardinality(FallbackIdx(stores_data)) \in 1..(FallbackCount - 1)

\* The names that two or more of the places fed to the loop carry.
DuplicatedNames ==
    { places[i].name : i \in { k \in 1..Len(places) :
          \E j \in 1..Len(places) : j # k /\ places[j].name = places[k].name } }

RecordsNamed(stores, name) == { i \in 1..Len(stores) : stores[i].name = name }

\* The first place of that name in `places`.
FirstPlaceNamed(name) ==
    places[CHOOSE i \in 1..Len(places) : places[i].name = name /\ FirstOfName(i)]

\* C3 as stated: a name that two or more places carry is the name of
\* exactly one record of the returned list, whatever the order and the
\* distances of the duplicates and whether the fallback generator ran.
C3_ExactlyOnePerName ==
    HasReturned =>
        \A name \in DuplicatedNames :
            Cardinality(RecordsNamed(stores_data, name)) = 1

\* C3 amended: a name that two or more places carry is the name of at most
\* one live record of the returned list, and of exactly one when the first
\* place of that name is within max_distance_km; the fallback records are
\* not deduplicated against the live ones.
C3_AtMostOneLivePerName ==
    HasReturned =>
        \A name \in DuplicatedNames :
            LET live == RecordsNamed(stores_data, name) \cap LiveIdx(stores_data) IN
            /\ Cardinality(live) <= 1
            /\ Cardinality(live) = 1 <=>
                  PlaceDistance(FirstPlaceNamed(name)) <= max_distance * 100

\* C3 witness: the duplicated name is kept once among the live records
\* while a fallback record repeats it.
C3_Witness ==
    /\ HasReturned
    /\ \E name \in DuplicatedNames :
          /\ Cardinality(RecordsNamed(stores_data, name) \cap LiveIdx(stores_data)) = 1
          /\ Cardinality(RecordsNamed(stores_data, name)) = 2

GeocodedCoord(resp) ==
    << resp.data.results[1].geometry.location.lat,
       resp.data.results[1].geometry.location.lng >>

GeocodeSucceeded(resp) ==
    /\ ~resp.raises
    /\ "status" \in DOMAIN resp.data
    /\ resp.data.status = "OK"
    /\ "results" \in DOMAIN resp.data
    /\ resp.data.results # << >>

\* C5: geocode_location never raises (the search goes on to the nearby
\* search after every outcome of the geocoding call); it returns the fixed
\* fallback coordinate for a transport error, a non-OK status, an empty
\* result list and a malformed body, and another coordinate only when the
\* status is OK and results is non-empty, and then the first result's.
C5_GeocodeFallback ==
    /\ Len(calls) = 1 => pc = "nearby"
    /\ (pc = "nearby") =>
          /\ ~GeocodeSucceeded(response) => user_latlon = FALLBACK_COORD
          /\ user_latlon # FALLBACK_COORD =>
                /\ GeocodeSucceeded(response)
                /\ user_latlon = GeocodedCoord(response)
          /\ (GeocodeSucceeded(response) /\ HasLatLng(response.data.results[1]))
                => user_latlon = GeocodedCoord(response)

\* C5 witness: the geocoding call failed in transport and the search goes
\* on from the fallback coordinate.
C5_Witness ==
    /\ pc = "nearby"
    /\ response.raises
    /\ user_latlon = FALLBACK_COORD

\* A search action has finished and the script run is over.
SearchFinished == pc = "idle" /\ clock > 0

\* C6 as stated: every search action ends either with a result produced
\* and stored or with the 'no stores found' message, never with an
\* exception raised while the API responses are processed.
C6_TwoOutcomes ==
    SearchFinished =>
        \/ /\ message = "success"
           /\ search_results # None
           /\ search_results.timestamp = clock
        \/ message = "no_stores"

\* C7 as stated: once a search action has finished, the result slot holds
\* no result of an earlier search: what it holds carries the location, the
\* item count and the time of the latest search.
C7_SlotIsLatest ==
    (SearchFinished /\ search_results # None) =>
        /\ search_results.timestamp = clock
        /\ search_results.location = location
        /\ search_results.total_items = Len(items)

\* C8: every place that is the first of its name and lies within
\* max_distance_km is in the returned list as exactly one live record of
\* that name, with total_items the number of requested items, whatever
\* the availability draws (also with no item matched).
C8_EveryPlaceListed ==
    HasReturned =>
        \A j \in 1..Len(places) :
            (FirstOfName(j) /\ PlaceDistance(places[j]) <= max_distance * 100) =>
                LET live == RecordsNamed(stores_data, places[j].name)
                                \cap LiveIdx(stores_data) IN
                /\ Cardinality(live) = 1
                /\ \A i \in live :
                      /\ stores_data[i].total_items = Len(items)
                      /\ stores_data[i].distance_km
                            = RoundKm1(PlaceDistance(places[j]))
                      /\ stores_data[i].place_id = Get(places[j], "place_id", "")

\* C8 witness: the place of the example, (45.01, 9.01) from (45.0, 9.0)
\* with two items asked, is listed at 1.3-1.6 km with no item matched.
C8_Witness ==
    /\ HasReturned
    /\ user_latlon = GEO_COORD
    /\ Len(items) = 2
    /\ \E s \in RecordsOf(stores_data) :
          /\ s.name = "Esselunga"
          /\ s.place_id = "g1"
          /\ s.distance_km \in 13..16
          /\ s.total_items = 2
          /\ s.products_count = 0

\* C9: analyze_results gives no summary for an empty list; the summary of
\* a non-empty list counts its records, repeats the requested item count,
\* counts the records flagged has_all_products, and has
\* min_products_in_store <= max_products_in_store <= total_products.
C9_Summary ==
    /\ (HasReturned /\ stores_data = << >>) =>
          analyze_results(stores_data, Len(items)) = None
    /\ (HasReturned /\ stores_data # << >>) =>
          analyze_results(stores_data, Len(items)) # None
    /\ search_results # None =>
          LET summary == search_results.summary
              stores  == search_results.stores
          IN  /\ summary.total_stores = Len(stores)
              /\ summary.total_products = search_results.total_items
              /\ summary.stores_with_all_products =
                    Cardinality({ i \in 1..Len(stores) : stores[i].has_all_products })
              /\ summary.min_products_in_store <= summary.max_products_in_store
              /\ summary.max_products_in_store <= summary.total_products
              /\ \A i \in 1..Len(stores) :
                    /\ summary.min_products_in_store <= stores[i].products_count
                    /\ stores[i].products_count <= summary.max_products_in_store

\* C9 witness: a stored summary of a list with complete and incomplete
\* stores.
C9_Witness ==
    /\ search_results # None
    /\ search_results.summary.stores_with_all_products > 0
    /\ search_results.summary.min_products_in_store
          < search_results.summary.max_products_in_store

\* The requests of a search, in order, when the text searches run.
AllCalls ==
    << [api |-> "geocode", query |-> location], [api |-> "nearby", query |-> ""] >>
    \o [i \in 1..3 |-> [api |-> "text", query |-> common_stores[i]]]

AfterRequests == pc \in {"aggregate", "fallback", "return"} \/ SearchFinished

\* C10: a search issues one geocode request, then one nearby search, then
\* text searches exactly when the nearby search gave fewer than 3 places,
\* and then 3 of them, for the first 3 reference names in order, their
\* results appended after the nearby results; none once aggregation has
\* started, so 2 or 5 requests in all.
C10_CallsState ==
    /\ Len(calls) <= Len(AllCalls)
    /\ calls = SubSeq(AllCalls, 1, Len(calls))
    /\ AfterRequests => Len(calls) \in {2, 5}
    /\ (Len(calls) = 2 /\ pc = "text") => Len(places) < 3
    /\ (Len(calls) = 2 /\ pc # "text") => Len(places) >= 3 \/ SearchFinished
    /\ pc = "text" => Len(calls) = 1 + text_i
    /\ (pc = "nearby") <=> (Len(calls) = 1)

C10_CallsStep ==
    /\ AfterRequests => (calls' = calls \/ calls' = << >>)
    /\ pc = "aggregate" => places' = places \/ places' = << >>
    /\ (pc = "text" /\ pc' # "idle") =>
          SubSeq(places', 1, Len(places)) = places
    /\ (pc = "nearby" /\ pc' = "aggregate") => Len(places') >= 3
    /\ (pc = "nearby" /\ pc' = "text") => Len(places') < 3

C10_SequentialCalls == [](C10_CallsState) /\ [][C10_CallsStep]_vars

\* C10 witness: aggregation starts after 5 requests with the text results
\* appended to the nearby results.
C10_Witness ==
    /\ pc = "aggregate"
    /\ Len(calls) = 5
    /\ Len(places) >= 2
    /\ places[1] = PlaceConad

\* ------------------------------------------------- availability estimator
\* The keyword classes of store names and items.
DiscountStore(n) ==
    AnyIn(Lower(Chars(n)), {"lidl", "eurospin", "md", "discount"})
SpecialtyStore(n) ==
    AnyIn(Lower(Chars(n)), {"naturasi^", "bio", "naturale", "fresco"})
LargeChainStore(n) ==
    AnyIn(Lower(Chars(n)), {"esselunga", "carrefour", "coop", "iper"})
OrganicStore(n) == AnyIn(Lower(Chars(n)), {"naturasi^", "bio"})
OrganicItem(it) ==
    AnyIn(Lower(Chars(it)), {"bio", "naturale", "vegano", "integrale"})

\* The table by the store's class alone.
StoreClassProb(n) ==
    IF DiscountStore(n) THEN 600
    ELSE IF SpecialtyStore(n) THEN 800
    ELSE IF LargeChainStore(n) THEN 750
    ELSE 700

\* The table: for an organic/dietary item, 0.9 in the stores of the class
\* `wide` selects -- every organic/specialty store, or only the stores
\* matching 'naturasi^' or 'bio' -- and 0.4 in the others.
TableProb(n, it, wide) ==
    IF OrganicItem(it)
    THEN IF (IF wide THEN SpecialtyStore(n) ELSE OrganicStore(n))
         THEN 900 ELSE 400
    ELSE StoreClassProb(n)

Range(f) == { f[i] : i \in DOMAIN f }

\* The record rec lists exactly the items whose draw, the k-th next of the
\* stream onwards, is below the table's probability.
ListedByTable(rec, k, wide) ==
    \A i \in 1..Len(items) :
        (items[i] \in Range(rec.products_found))
            <=> (Draw(k + i - 1) < TableProb(rec.name, items[i], wide))

\* Every record a step appends, live or fallback, is listed by the table.
EstimatedByTable(wide) ==
    /\ (pc = "aggregate" /\ Len(stores_data') = Len(stores_data) + 1) =>
           ListedByTable(stores_data'[Len(stores_data')], 0, wide)
    /\ (pc = "fallback" /\ Len(fallback_stores') = Len(fallback_stores) + 1) =>
           ListedByTable(fallback_stores'[Len(fallback_stores')], 2, wide)

\* C11 as stated: the probability the draw of an item is compared with is
\* 0.9 for an organic/dietary item in a store matching the organic/specialty
\* keywords and 0.4 in any other store; for other items 0.6 in a discount
\* store, else 0.8 in an organic/specialty store, else 0.75 in a large
\* chain, else 0.7; the item is listed exactly when its draw is below it.
C11_SpecialtyTable == [][EstimatedByTable(TRUE)]_vars

\* C11 amended: as above, but the 0.9 holds only for the stores whose name
\* contains 'naturasi^' or 'bio'; an organic/dietary item has 0.4 in a
\* store matching only 'naturale' or 'fresco'.
C11_OrganicTable == [][EstimatedByTable(FALSE)]_vars

\* C11 witness: with every draw at 0.5 the store "Fresco" lists "pasta"
\* (0.5 < 0.8) and not "Latte Bio" (0.5 >= 0.4), while "NaturaSi^" lists
\* "Latte Bio" (0.5 < 0.9).
C11_Witness ==
    /\ pc = "return"
    /\ \A i \in 1..RngPeriod : seed[i] = 500
    /\ \E s \in RecordsOf(stores_data) :
          /\ s.name = "Fresco"
          /\ "pasta" \in Range(s.products_found)
          /\ "Latte Bio" \in Range(items) \ Range(s.products_found)
    /\ \E s \in RecordsOf(stores_data) :
          /\ s.name = "NaturaSi^"
          /\ "Latte Bio" \in Range(s.products_found)

\* ------------------------------------------------------ fallback trigger
\* C12: the fallback generator runs only when fewer than 3 live records
\* survived, at most once per search, and its records go after all live
\* records: with 3 or more live records the list search_stores returns has
\* no fallback record, and in every returned list no live record follows a
\* fallback record.
C12_FallbackState ==
    /\ pc = "fallback" =>
          /\ Len(stores_data) < 3
          /\ LiveIdx(stores_data) = 1..Len(stores_data)
          /\ \A i \in 1..Len(fallback_stores) :
                IsFallbackRecord(fallback_stores[i])
    /\ HasReturned =>
          /\ Cardinality(LiveIdx(stores_data)) >= 3 =>
                FallbackIdx(stores_data) = {}
          /\ \A i \in FallbackIdx(stores_data), j \in LiveIdx(stores_data) :
                j < i
          /\ \A i, j \in FallbackIdx(stores_data) :
                stores_data[i].place_id = stores_data[j].place_id => i = j

C12_FallbackStep ==
    /\ (pc # "fallback" /\ pc' = "fallback") =>
          /\ pc = "aggregate"
          /\ idx > Len(places)
          /\ Len(stores_data) < 3
          /\ fb_i = 0 /\ fallback_stores = << >>
    /\ (pc = "aggregate" /\ pc' = "return") =>
          /\ Len(stores_data) >= 3
          /\ fallback_stores = << >>
    /\ pc = "fallback" =>
          pc' \in {"fallback", "return"}
    /\ (pc = "fallback" /\ pc' = "return") =>
          /\ fb_i = 6
          /\ stores_data' = stores_data \o fallback_stores
    /\ pc = "return" => pc' = "idle"

C12_FallbackOnlyWhenFew == [](C12_FallbackState) /\ [][C12_FallbackStep]_vars

\* C12 witness: three live records are returned, and no fallback record,
\* although the radius admits every fallback store.
C12_Witness ==
    /\ HasReturned
    /\ max_distance >= 8
    /\ Cardinality(LiveIdx(stores_data)) >= 3
    /\ FallbackIdx(stores_data) = {}
    /\ fb_i = 0

\* The returned list has live records followed by fallback records.
C12_WitnessAppended ==
    /\ HasReturned
    /\ LiveIdx(stores_data) # {}
    /\ FallbackIdx(stores_data) # {}

\* --------------------------------------------------------- presentation
\* How many times the record s occurs in the list.
Occurrences(stores, s) == Cardinality({ i \in 1..Len(stores) : stores[i] = s })

\* The stores of the list that miss a product and have c of them, in order.
MissingWithCount(stores, c) ==
    LET Test(s) == s.missing_products # 0 /\ s.products_count = c
    IN  SelectSeq(stores, Test)

\* C13: the cards rendered from the stored result are two groups that
\* partition it; the recommended group holds exactly the stores with
\* missing_products = 0; the other group holds the rest in non-increasing
\* order of products_count, stores of equal products_count in their
\* original relative order.
C13_Grouping ==
    search_results # None =>
        LET stores == search_results.stores
            rec    == RenderedRecommended
            oth    == RenderedOthers
        IN  /\ Len(rec) + Len(oth) = Len(stores)
            /\ \A s \in RecordsOf(stores) :
                  Occurrences(rec, s) + Occurrences(oth, s)
                      = Occurrences(stores, s)
            /\ \A i \in 1..Len(rec) : rec[i].missing_products = 0
            /\ \A i \in 1..Len(oth) : oth[i].missing_products # 0
            /\ \A i \in 1..(Len(oth) - 1) :
                  oth[i].products_count >= oth[i + 1].products_count
            /\ \A c \in 0..search_results.total_items :
                  MissingWithCount(oth, c) = MissingWithCount(stores, c)

\* C13 witness: both groups are rendered, and the other group is reordered
\* and has two stores of equal products_count.
C13_Witness ==
    /\ search_results # None
    /\ RenderedRecommended # << >>
    /\ RenderedOthers # other_stores(search_results.stores)
    /\ \E c \in 0..search_results.total_items :
          Len(MissingWithCount(RenderedOthers, c)) >= 2

\* -------------------------------------------------------- session state
\* The keys of the summary the results block reads.
SummaryKeysRead == {"total_stores", "total_products", "stores_with_all_products"}

\* C14: over any sequence of searches, st.session_state.search_results is
\* None or a result with a non-empty stores list, a summary that is not
\* None and has total_stores = len(stores), and total_items >= 1; so the
\* results block finds its summary and create_visualizations does not give
\* it None to unpack.
C14_SlotWellFormed ==
    search_results # None =>
        /\ Len(search_results.stores) >= 1
        /\ search_results.summary # None
        /\ SummaryKeysRead \subseteq DOMAIN search_results.summary
        /\ search_results.summary.total_stores = Len(search_results.stores)
        /\ search_results.total_items >= 1
        /\ create_visualizations(search_results.stores) # None
        /\ Len(create_visualizations(search_results.stores).fig2)
              = Len(search_results.stores)

\* C14 witness: a second search has ended without a store while the slot
\* holds the result of the first.
C14_Witness ==
    /\ SearchFinished
    /\ clock = 2
    /\ message = "no_stores"
    /\ search_results # None
    /\ search_results.timestamp = 1

\* ---------------------------------------------------------- button guard
\* C15: the search runs only with a parsed item list that is not empty and
\* a location that is not blank, the items being stripped non-empty lines;
\* so search_stores never has an empty item list, and len(items), by which
\* the match_percentage of live and fallback records is divided, is never 0.
C15_GuardedSearch ==
    /\ pc # "idle" =>
          /\ Len(items) >= 1
          /\ ~IsBlank(location)
    /\ \A i \in 1..Len(items) :
          /\ items[i] # ""
          /\ strip(items[i]) = items[i]
    /\ \A s \in RecordsOf(stores_data) \cup RecordsOf(fallback_stores) :
          /\ s.total_items = Len(items)
          /\ s.total_items >= 1
    /\ search_results # None =>
          \A s \in RecordsOf(search_results.stores) : s.total_items >= 1

\* C15 witness: a search over the two items parsed from padded and blank
\* lines returns a live and a fallback record with one item of the two,
\* 50.0 percent.
C15_Witness ==
    /\ HasReturned
    /\ items = << "pasta", "Latte Bio" >>
    /\ \E i \in LiveIdx(stores_data) : stores_data[i].match_percentage = 500
    /\ \E i \in FallbackIdx(stores_data) : stores_data[i].match_percentage = 500

====
